---- MODULE Spec2Model ----
(***************************************************************************)
(* Model of core/component_health.py: the SystemHealthMonitor singleton,   *)
(* its component records, the aggregate status and the query operations;   *)
(* and of core/audit_logger.py: the AuditLogger and the lines it emits.    *)
(*                                                                         *)
(* Python objects are modelled with their identity: a monitor instance is  *)
(* an id into objs, a metadata dict is an id into heap.  An id is 0 for    *)
(* Python's None.  Timestamps (datetime.now()) are reduced to "set" or     *)
(* "None"; last_updated is always set and is left out of the record.       *)
(*                                                                         *)
(* Spec and SpecMeta have one caller and whole handlers as steps;          *)
(* SpecBarrier and SpecThreads run the handlers of one instance in several *)
(* threads, a statement per step; SpecSingleton does the same for the      *)
(* accessors and reset(), SpecRegistry adds register_component to these.   *)
(* SpecAudit has one caller of the audit logger.                           *)
(***************************************************************************)
EXTENDS Integers, FiniteSets, Sequences, TLC

VARIABLES
    objs,            \* monitor instances: id -> fields set by __new__/__init__
    cls_instance,    \* SystemHealthMonitor._instance (0 = None)
    health_monitor,  \* module global _health_monitor (0 = None)
    heap,            \* metadata dict objects: id -> mapping
    h,               \* the instance the sequential caller holds (0 = none yet)
    ret,             \* value returned by the last query, until the next call
    reset_seen,      \* TRUE iff the last lifecycle call on h was reset()
    seen,            \* names passed to h since it was created or last reset
    threads,         \* concurrent callers: thread id -> position and locals
    locks,           \* the RLock objects that are held: [lock, owner]
    init_lock,       \* owner of SystemHealthMonitor._init_lock (0 = free)
    retired,         \* instances on which a reset() call has returned
    window,          \* results of the accessor calls that ran wholly since then
    sink             \* audit log: the texts handed to the file handler, in order

vars == <<objs, cls_instance, health_monitor, heap, h, ret, reset_seen, seen,
          threads, locks, init_lock, retired, window, sink>>
tvars == <<threads, locks, init_lock, retired, window, sink>>

----------------------------------------------------------------------------
(* Bounds and input domains *)

MaxCount == 2
MaxCountMeta == 1
MaxCountCollab == 1

Names == {"x", "y"}
ErrorMsgs == {"None", "e1"}
EmptyMap == [k \in {} |-> "0"]
MetaA1 == [k \in {"a"} |-> "1"]
MetaA2B2 == [k \in {"a", "b"} |-> "2"]
MetaVals == {MetaA1, MetaA2B2}
\* what a caller writes into a mapping it was handed
MetaW == [k \in {"a"} |-> "w"]

----------------------------------------------------------------------------
(* HealthStatus enum (lines 21-26) *)

HEALTHY == "HEALTHY"
DEGRADED == "DEGRADED"
FAILED == "FAILED"
UNKNOWN == "UNKNOWN"

HealthStatusValue(s) ==
    CASE s = HEALTHY -> "healthy"
      [] s = DEGRADED -> "degraded"
      [] s = FAILED -> "failed"
      [] s = UNKNOWN -> "unknown"

----------------------------------------------------------------------------
(* Metadata arguments.  A caller passes None, a dict object of its own     *)
(* (fresh to the registry), or a dict object the registry already holds    *)
(* because the caller passed it before (alias).                            *)

MetaNone == [kind |-> "none", ref |-> 0, val |-> EmptyMap]
MetaFresh(v) == [kind |-> "fresh", ref |-> 0, val |-> v]
MetaAlias(r) == [kind |-> "alias", ref |-> r, val |-> EmptyMap]

MetaContent(md, hp) == IF md.kind = "alias" THEN hp[md.ref] ELSE md.val

\* Python truthiness of the metadata argument: None and {} are falsy.
Truthy(md, hp) == md.kind # "none" /\ DOMAIN MetaContent(md, hp) # {}

\* the id of a newly built dict: any id no live dict has (the smallest)
FreshRef(used) == CHOOSE i \in 1..(Cardinality(used) + 1) : i \notin used

\* an update that replaces the mapping
DictUpdate_replaces(m1, m2) == m2

\* dict.update
DictUpdate(m1, m2) ==
    [k \in DOMAIN m1 \cup DOMAIN m2 |-> IF k \in DOMAIN m2 THEN m2[k] ELSE m1[k]]

\* `metadata or {}`: the caller's own object when truthy, else a new {}.
\* `used`: the ids of the dicts that stay referenced.
MetaOrEmpty(md, hp, used) ==
    IF Truthy(md, hp)
    THEN IF md.kind = "alias"
         THEN [ref |-> md.ref, heap |-> hp]
         ELSE [ref |-> FreshRef(used), heap |-> (FreshRef(used) :> md.val) @@ hp]
    ELSE [ref |-> FreshRef(used), heap |-> (FreshRef(used) :> EmptyMap) @@ hp]

----------------------------------------------------------------------------
(* ComponentHealth dataclass (lines 29-40) *)

ComponentHealth(name, status, last_error, ref) ==
    [name |-> name, status |-> status, error_count |-> 0, warning_count |-> 0,
     last_error |-> last_error, last_error_time |-> "None",
     fallback_active |-> FALSE, metadata |-> ref]

\* to_dict (lines 42-54): `self.metadata or {}` hands out the record's own
\* dict object when it is non-empty, a new {} otherwise (ref 0).
to_dict(c, hp) ==
    [name |-> c.name,
     status |-> HealthStatusValue(c.status),
     error_count |-> c.error_count,
     warning_count |-> c.warning_count,
     last_error |-> c.last_error,
     last_error_time |-> c.last_error_time,
     fallback_active |-> c.fallback_active,
     metadata |-> [ref |-> IF DOMAIN hp[c.metadata] # {} THEN c.metadata ELSE 0,
                   val |-> hp[c.metadata]]]

----------------------------------------------------------------------------
(* Registry operations as functions of st = [components, system_status,    *)
(* heap]: the fields of one instance plus the dict heap.                   *)

\* a recomputation that reports a FAILED component as a FAILED system
update_system_status_failed(st) ==
    IF DOMAIN st.components = {}
    THEN [st EXCEPT !.system_status = UNKNOWN]
    ELSE IF \E n \in DOMAIN st.components : st.components[n].status = FAILED
         THEN [st EXCEPT !.system_status = FAILED]
         ELSE IF \E n \in DOMAIN st.components : st.components[n].status = DEGRADED
              THEN [st EXCEPT !.system_status = DEGRADED]
              ELSE [st EXCEPT !.system_status = HEALTHY]

\* a recomputation that looks for DEGRADED components only
update_system_status_no_failed(st) ==
    IF DOMAIN st.components = {}
    THEN [st EXCEPT !.system_status = UNKNOWN]
    ELSE IF \E n \in DOMAIN st.components : st.components[n].status = DEGRADED
         THEN [st EXCEPT !.system_status = DEGRADED]
         ELSE [st EXCEPT !.system_status = HEALTHY]

\* lines 181-194
update_system_status(st) ==
    IF DOMAIN st.components = {}
    THEN [st EXCEPT !.system_status = UNKNOWN]
    ELSE IF \E n \in DOMAIN st.components : st.components[n].status = FAILED
         THEN [st EXCEPT !.system_status = DEGRADED]
         ELSE IF \E n \in DOMAIN st.components : st.components[n].status = DEGRADED
              THEN [st EXCEPT !.system_status = DEGRADED]
              ELSE [st EXCEPT !.system_status = HEALTHY]

\* dict item assignment self._components[name] = value
SetItem(comps, name, value) ==
    [n \in DOMAIN comps \cup {name} |-> IF n = name THEN value ELSE comps[n]]

\* The dicts still referenced once components[name] is rebound: those of
\* the other components of this instance and those held elsewhere.
UsedRefs(st, name) ==
    LET mine == {st.components[n].metadata : n \in DOMAIN st.components}
        kept == {st.components[n].metadata : n \in DOMAIN st.components \ {name}}
    IN  (DOMAIN st.heap \ mine) \cup kept

\* lines 96-103
register_component(st, name, md) ==
    LET mo == MetaOrEmpty(md, st.heap, UsedRefs(st, name))
    IN  [st EXCEPT !.components = SetItem(st.components, name,
                                          ComponentHealth(name, HEALTHY, "None", mo.ref)),
                   !.heap = mo.heap]

\* `if component not in self._components: self.register_component(...)`
EnsureRegistered(st, name, md) ==
    IF name \in DOMAIN st.components THEN st ELSE register_component(st, name, md)

\* `if metadata: health.metadata.update(metadata)`
UpdateMetadata(st, name, md) ==
    IF Truthy(md, st.heap)
    THEN LET r == st.components[name].metadata
         IN  [st EXCEPT !.heap[r] = DictUpdate(st.heap[r], MetaContent(md, st.heap))]
    ELSE st

\* A call: [op, name, error_msg, fallback_active, metadata].
Call(op, name, msg, fb, md) ==
    [op |-> op, name |-> name, error_msg |-> msg, fallback_active |-> fb, metadata |-> md]

\* The statements of each handler's locked section, in program order.
NSteps(c) ==
    CASE c.op = "register_component" -> 1
      [] c.op = "mark_healthy" -> 5
      [] c.op = "mark_degraded" -> 8
      [] c.op = "mark_failed" -> 7
      [] c.op = "get_component_health" -> 1

\* a mark_healthy that also zeroes the counters
mark_healthy_step_clears_counts(i, st, c) ==
    CASE i = 1 -> EnsureRegistered(st, c.name, c.metadata)
      [] i = 2 -> [st EXCEPT !.components[c.name].status = HEALTHY,
                             !.components[c.name].error_count = 0,
                             !.components[c.name].warning_count = 0]
      [] i = 3 -> [st EXCEPT !.components[c.name].fallback_active = FALSE]
      [] i = 4 -> UpdateMetadata(st, c.name, c.metadata)
      [] i = 5 -> update_system_status(st)

\* lines 113-124
mark_healthy_step(i, st, c) ==
    CASE i = 1 -> EnsureRegistered(st, c.name, c.metadata)
      [] i = 2 -> [st EXCEPT !.components[c.name].status = HEALTHY]
      [] i = 3 -> [st EXCEPT !.components[c.name].fallback_active = FALSE]
      [] i = 4 -> UpdateMetadata(st, c.name, c.metadata)
      [] i = 5 -> update_system_status(st)

\* a mark_degraded that leaves the warning counter alone
mark_degraded_step_no_count(i, st, c) ==
    CASE i = 1 -> EnsureRegistered(st, c.name, c.metadata)
      [] i = 2 -> [st EXCEPT !.components[c.name].status = DEGRADED]
      [] i = 3 -> st
      [] i = 4 -> [st EXCEPT !.components[c.name].last_error = c.error_msg]
      [] i = 5 -> [st EXCEPT !.components[c.name].last_error_time = "set"]
      [] i = 6 -> [st EXCEPT !.components[c.name].fallback_active = c.fallback_active]
      [] i = 7 -> UpdateMetadata(st, c.name, c.metadata)
      [] i = 8 -> update_system_status(st)

\* lines 138-152
mark_degraded_step(i, st, c) ==
    CASE i = 1 -> EnsureRegistered(st, c.name, c.metadata)
      [] i = 2 -> [st EXCEPT !.components[c.name].status = DEGRADED]
      [] i = 3 -> [st EXCEPT !.components[c.name].warning_count = @ + 1]
      [] i = 4 -> [st EXCEPT !.components[c.name].last_error = c.error_msg]
      [] i = 5 -> [st EXCEPT !.components[c.name].last_error_time = "set"]
      [] i = 6 -> [st EXCEPT !.components[c.name].fallback_active = c.fallback_active]
      [] i = 7 -> UpdateMetadata(st, c.name, c.metadata)
      [] i = 8 -> update_system_status(st)

\* a mark_failed that also clears the fallback flag
mark_failed_step_clears_fallback(i, st, c) ==
    CASE i = 1 -> EnsureRegistered(st, c.name, c.metadata)
      [] i = 2 -> [st EXCEPT !.components[c.name].status = FAILED,
                             !.components[c.name].fallback_active = FALSE]
      [] i = 3 -> [st EXCEPT !.components[c.name].error_count = @ + 1]
      [] i = 4 -> [st EXCEPT !.components[c.name].last_error = c.error_msg]
      [] i = 5 -> [st EXCEPT !.components[c.name].last_error_time = "set"]
      [] i = 6 -> UpdateMetadata(st, c.name, c.metadata)
      [] i = 7 -> update_system_status(st)

\* lines 165-178
mark_failed_step(i, st, c) ==
    CASE i = 1 -> EnsureRegistered(st, c.name, c.metadata)
      [] i = 2 -> [st EXCEPT !.components[c.name].status = FAILED]
      [] i = 3 -> [st EXCEPT !.components[c.name].error_count = @ + 1]
      [] i = 4 -> [st EXCEPT !.components[c.name].last_error = c.error_msg]
      [] i = 5 -> [st EXCEPT !.components[c.name].last_error_time = "set"]
      [] i = 6 -> UpdateMetadata(st, c.name, c.metadata)
      [] i = 7 -> update_system_status(st)

\* a lookup that registers an unseen name the way register_component does
get_component_health_step_registers_healthy(st, c) ==
    EnsureRegistered(st, c.name, MetaNone)

\* a lookup that creates no record
get_component_health_step_no_register(st, c) == st

\* lines 206-216: auto-register with UNKNOWN, no aggregate recomputation
get_component_health_step(st, c) ==
    IF c.name \in DOMAIN st.components
    THEN st
    ELSE LET r == FreshRef(UsedRefs(st, c.name))
         IN  [st EXCEPT !.components = SetItem(st.components, c.name,
                                               ComponentHealth(c.name, UNKNOWN, "None", r)),
                        !.heap = (r :> EmptyMap) @@ st.heap]

Step(i, st, c) ==
    CASE c.op = "register_component" -> register_component(st, c.name, c.metadata)
      [] c.op = "mark_healthy" -> mark_healthy_step(i, st, c)
      [] c.op = "mark_degraded" -> mark_degraded_step(i, st, c)
      [] c.op = "mark_failed" -> mark_failed_step(i, st, c)
      [] c.op = "get_component_health" -> get_component_health_step(st, c)

RECURSIVE RunFrom(_, _, _)
RunFrom(i, st, c) == IF i > NSteps(c) THEN st ELSE RunFrom(i + 1, Step(i, st, c), c)

\* A whole handler, run under the lock without interruption.
Run(st, c) == RunFrom(1, st, c)

----------------------------------------------------------------------------
(* Monitor instances and the singleton (lines 65-86, 343-370) *)

EmptyComps == [n \in {} |-> 0]

\* super().__new__(cls) followed by `_initialized = False` (lines 73-74):
\* an object with no _components, _component_lock or _system_status yet.
NewObject ==
    [initialized |-> FALSE, has_attrs |-> FALSE, components |-> EmptyComps,
     system_status |-> HEALTHY, lock_gen |-> 0]

FreshId(os) == CHOOSE i \in 1..(Cardinality(DOMAIN os) + 1) : i \notin DOMAIN os

\* __init__ body after the idempotence test (lines 82-85)
InitFields(o) ==
    [initialized |-> TRUE, has_attrs |-> TRUE, components |-> EmptyComps,
     system_status |-> HEALTHY, lock_gen |-> o.lock_gen + 1]

\* __init__ (lines 77-86)
init_(o) == IF o.initialized THEN o ELSE InitFields(o)

\* __new__ (lines 68-75) on g = [objs, cls_instance]; result in .result
new_(g) ==
    IF g.cls_instance = 0
    THEN LET i == FreshId(g.objs)
         IN  [objs |-> (i :> NewObject) @@ g.objs, cls_instance |-> i, result |-> i]
    ELSE [objs |-> g.objs, cls_instance |-> g.cls_instance, result |-> g.cls_instance]

\* SystemHealthMonitor(): __new__, then __init__ on what it returned
Construct(g) ==
    LET n == new_(g)
    IN  [n EXCEPT !.objs[n.result] = init_(n.objs[n.result])]

\* the locked part of reset (lines 345-350), on an object that has its
\* _components and _component_lock: line 347 sets _system_status, creating
\* the attribute when it is absent
reset_fields(o) ==
    [o EXCEPT !.components = EmptyComps, !.system_status = HEALTHY,
              !.has_attrs = TRUE, !.initialized = FALSE]

\* a reset that leaves the singleton handles as they were
ResetGlobalKept(old) == old

\* what reset leaves in SystemHealthMonitor._instance and _health_monitor
\* (lines 354-358)
ResetGlobal(old) == 0

----------------------------------------------------------------------------
(* Queries (lines 218-270, 306-341) *)

\* Outcomes of the resource-metrics collaborator: check_resource_health()
\* returns a mapping whose 'overall' is one of these ("missing": no such
\* key), or some call of the collaborator raises: an Exception, or a
\* BaseException that is none (SystemExit, KeyboardInterrupt, ...).
Verdicts == {"ok", "warning", "critical", "bogus", "missing"}
CollabOutcomes == [raises : {FALSE}, exc : {"none"}, overall : Verdicts]
                  \cup [raises : {TRUE}, exc : {"Exception", "BaseException"},
                        overall : {"missing"}]

\* `except Exception` (line 258) does not catch it: the call raises
Escapes(co) == co.raises /\ co.exc = "BaseException"

\* lines 234-238
ResourceHealthStatus(overall) ==
    IF overall = "critical" THEN FAILED
    ELSE IF overall = "warning" THEN DEGRADED
    ELSE HEALTHY

\* the system_resources entry (lines 243-256 and 261-268)
ResourceEntry(co) ==
    IF co.raises
    THEN [name |-> "system_resources", status |-> HealthStatusValue(UNKNOWN),
          error_count |-> 0, warning_count |-> 0, last_error |-> "boom",
          last_error_time |-> "None", fallback_active |-> FALSE,
          metadata |-> [ref |-> 0,
                        val |-> [k \in {"error"} |-> "Resource monitoring unavailable"]]]
    ELSE [name |-> "system_resources",
          status |-> HealthStatusValue(ResourceHealthStatus(co.overall)),
          error_count |-> 0, warning_count |-> 0, last_error |-> "None",
          last_error_time |-> "None", fallback_active |-> FALSE,
          metadata |-> [ref |-> 0,
                        val |-> [k \in {"resource_status"} |-> co.overall]]]

\* what a call gives its caller when an exception leaves it
Raised(op, co) == [kind |-> "raised", op |-> op, collab |-> co]

\* get_all_health (lines 225-270), when it returns: the system_resources
\* entry is written last and replaces a component of that name.
get_all_health(o, hp, co) ==
    [n \in DOMAIN o.components \cup {"system_resources"} |->
        IF n = "system_resources" THEN ResourceEntry(co)
        ELSE to_dict(o.components[n], hp)]

CountStatus(o, s) == Cardinality({n \in DOMAIN o.components : o.components[n].status = s})

\* get_system_status (lines 313-331)
get_system_status(o, hp, co) ==
    [overall_status |-> HealthStatusValue(o.system_status),
     component_counts |-> [healthy |-> CountStatus(o, HEALTHY),
                           degraded |-> CountStatus(o, DEGRADED),
                           failed |-> CountStatus(o, FAILED),
                           total |-> Cardinality(DOMAIN o.components)],
     components |-> get_all_health(o, hp, co)]

\* lines 333-341
is_system_healthy(o) == o.system_status = HEALTHY
is_system_degraded(o) == o.system_status = DEGRADED

----------------------------------------------------------------------------
(* Sequential callers: one caller holding one instance h.  Objects nobody   *)
(* references any more are dropped, as the Python runtime does.            *)

RetNone == [kind |-> "none"]

StOf(o, hp) == [components |-> o.components, system_status |-> o.system_status, heap |-> hp]
Store(o, st) == [o EXCEPT !.components = st.components, !.system_status = st.system_status]

Restrict(f, S) == [k \in DOMAIN f \cap S |-> f[k]]
Refs(os) == {os[i].components[n].metadata : <<i, n>> \in
               UNION {{<<j, m>> : m \in DOMAIN os[j].components} : j \in DOMAIN os}}

\* Object ids carry no meaning beyond identity.  After a call the instance
\* the caller holds is numbered 1 (another live one, 2).
ObjName(nh, i) == IF i = 0 THEN 0 ELSE IF i = nh THEN 1 ELSE 2

\* the next state, with unreferenced instances and dicts collected
Commit(no, nc, nhm, nhp, nh, nret, nrs) ==
    LET live == {nh, nc, nhm} \ {0}
    IN  /\ objs' = [k \in {ObjName(nh, i) : i \in live} |->
                      no[CHOOSE i \in live : ObjName(nh, i) = k]]
        /\ cls_instance' = ObjName(nh, nc)
        /\ health_monitor' = ObjName(nh, nhm)
        /\ heap' = Restrict(nhp, Refs(Restrict(no, live)))
        /\ h' = ObjName(nh, nh)
        /\ ret' = nret
        /\ reset_seen' = nrs
        /\ UNCHANGED tvars

\* Input domains of a specification: D = [names, marked, msgs, fbs, metavals, alias,
\* collab, cap].  metavals are the contents of the dicts a caller builds;
\* with alias it may also pass again a dict object it passed before, which
\* the registry still holds.
MetaInputs(i, D) ==
    {MetaNone} \cup {MetaFresh(v) : v \in D.metavals}
    \cup (IF D.alias
          THEN {MetaAlias(objs[i].components[n].metadata) : n \in DOMAIN objs[i].components}
          ELSE {})

Usable == h # 0 /\ objs[h].has_attrs

\* a mutation of h: the whole handler c
Mutate(c) ==
    LET st == Run(StOf(objs[h], heap), c)
    IN  /\ Commit([objs EXCEPT ![h] = Store(objs[h], st)], cls_instance, health_monitor,
                  st.heap, h, RetNone, FALSE)
        /\ seen' = seen \cup {c.name}

SeqInit ==
    /\ objs = [i \in {} |-> NewObject]
    /\ cls_instance = 0
    /\ health_monitor = 0
    /\ heap = [i \in {} |-> EmptyMap]
    /\ h = 0
    /\ ret = RetNone
    /\ reset_seen = FALSE
    /\ seen = {}
    /\ threads = [t \in {} |-> 0]
    /\ locks = {}
    /\ init_lock = 0
    /\ retired = {}
    /\ window = {}
    /\ sink = << >>

\* What an accessor call handed to the caller: whether the object was built
\* by this call, whether it is the object the caller already held, and
\* whether that held object has been reset and not handed out again since.
InstanceRet(r) ==
    [kind |-> "instance", created |-> r \notin DOMAIN objs, same_as_held |-> r = h,
     after_reset |-> (h # 0 /\ ~objs[h].initialized)]

\* m = SystemHealthMonitor()
CallConstructor ==
    LET r == Construct([objs |-> objs, cls_instance |-> cls_instance])
    IN  /\ Commit(r.objs, r.cls_instance, health_monitor, heap, r.result,
                  InstanceRet(r.result),
                  FALSE)
        /\ seen' = IF r.result = h THEN seen ELSE {}

\* get_health_monitor (lines 365-370) on g = [objs, cls_instance, health_monitor]
get_health_monitor(g) ==
    IF g.health_monitor = 0
    THEN LET r == Construct([objs |-> g.objs, cls_instance |-> g.cls_instance])
         IN  [objs |-> r.objs, cls_instance |-> r.cls_instance,
              health_monitor |-> r.result, result |-> r.result]
    ELSE [objs |-> g.objs, cls_instance |-> g.cls_instance,
          health_monitor |-> g.health_monitor, result |-> g.health_monitor]

\* m = get_health_monitor()
CallGetHealthMonitor ==
    LET r == get_health_monitor([objs |-> objs, cls_instance |-> cls_instance,
                                 health_monitor |-> health_monitor])
    IN  /\ Commit(r.objs, r.cls_instance, r.health_monitor, heap, r.result,
                  InstanceRet(r.result),
                  FALSE)
        /\ seen' = IF r.result = h THEN seen ELSE {}

\* h.reset() (lines 343-358)
CallReset ==
    /\ Usable
    /\ Commit([objs EXCEPT ![h] = reset_fields(objs[h])],
              ResetGlobal(cls_instance), ResetGlobal(health_monitor), heap, h,
              RetNone, TRUE)
    /\ seen' = {}

CallRegisterComponent(D) ==
    /\ Usable
    /\ \E n \in D.names, md \in MetaInputs(h, D) :
          Mutate(Call("register_component", n, "None", FALSE, md))

CallMarkHealthy(D) ==
    /\ Usable
    /\ \E n \in D.marked, md \in MetaInputs(h, D) :
          Mutate(Call("mark_healthy", n, "None", FALSE, md))

CallMarkDegraded(D) ==
    /\ Usable
    /\ \E n \in D.marked, msg \in D.msgs, fb \in D.fbs, md \in MetaInputs(h, D) :
          /\ n \in DOMAIN objs[h].components => objs[h].components[n].warning_count < D.cap
          /\ Mutate(Call("mark_degraded", n, msg, fb, md))

CallMarkFailed(D) ==
    /\ Usable
    /\ \E n \in D.marked, msg \in D.msgs, md \in MetaInputs(h, D) :
          /\ n \in DOMAIN objs[h].components => objs[h].components[n].error_count < D.cap
          /\ Mutate(Call("mark_failed", n, msg, FALSE, md))

\* h.get_component_health(n): returns the stored record itself (line 216)
CallGetComponentHealth(D) ==
    /\ Usable
    /\ \E n \in D.names :
          LET st == Run(StOf(objs[h], heap), Call("get_component_health", n, "None", FALSE, MetaNone))
          IN  /\ Commit([objs EXCEPT ![h] = Store(objs[h], st)], cls_instance, health_monitor,
                        st.heap, h, [kind |-> "component", name |-> n],
                        reset_seen /\ n \in DOMAIN objs[h].components)
              /\ seen' = seen \cup {n}

CallGetAllHealth(D) ==
    /\ Usable
    /\ \E co \in D.collab :
          /\ Commit(objs, cls_instance, health_monitor, heap, h,
                    IF Escapes(co) THEN Raised("get_all_health", co)
                    ELSE [kind |-> "all", value |-> get_all_health(objs[h], heap, co),
                          collab |-> co], reset_seen)
          /\ UNCHANGED seen

CallGetSystemStatus(D) ==
    /\ Usable
    /\ \E co \in D.collab :
          /\ Commit(objs, cls_instance, health_monitor, heap, h,
                    IF Escapes(co) THEN Raised("get_system_status", co)
                    ELSE [kind |-> "status", value |-> get_system_status(objs[h], heap, co),
                          after_reset |-> reset_seen, collab |-> co], reset_seen)
          /\ UNCHANGED seen

CallIsSystemHealthy ==
    /\ Usable
    /\ Commit(objs, cls_instance, health_monitor, heap, h,
              [kind |-> "bool", op |-> "is_system_healthy",
               value |-> is_system_healthy(objs[h])], reset_seen)
    /\ UNCHANGED seen

CallIsSystemDegraded ==
    /\ Usable
    /\ Commit(objs, cls_instance, health_monitor, heap, h,
              [kind |-> "bool", op |-> "is_system_degraded",
               value |-> is_system_degraded(objs[h])], reset_seen)
    /\ UNCHANGED seen

\* The caller writes into the value the last query returned: a field of a
\* returned record, or a key of a returned metadata mapping.
WriteRecordField ==
    /\ ret.kind = "component"
    /\ Commit([objs EXCEPT ![h].components[ret.name].status = FAILED],
              cls_instance, health_monitor, heap, h, RetNone, FALSE)
    /\ UNCHANGED seen

WriteRecordMetadata ==
    /\ ret.kind = "component"
    /\ LET r == objs[h].components[ret.name].metadata
       IN  /\ Commit(objs, cls_instance, health_monitor,
                     [heap EXCEPT ![r] = DictUpdate(@, MetaW)], h, RetNone, FALSE)
           /\ UNCHANGED seen

Entries == IF ret.kind = "all" THEN ret.value
           ELSE IF ret.kind = "status" THEN ret.value.components
           ELSE EmptyComps

\* a write into entry n's "metadata" mapping: the registry's own dict when
\* to_dict handed that out (ref # 0), a private one otherwise
WriteEntryMetadata ==
    /\ ret.kind \in {"all", "status"}
    /\ \E n \in DOMAIN Entries :
          LET r == Entries[n].metadata.ref
          IN  /\ Commit(objs, cls_instance, health_monitor,
                        IF r # 0 THEN [heap EXCEPT ![r] = DictUpdate(@, MetaW)] ELSE heap,
                        h, RetNone, FALSE)
              /\ UNCHANGED seen

MutateReturned == WriteRecordField \/ WriteRecordMetadata \/ WriteEntryMetadata

Lifecycle == CallConstructor \/ CallGetHealthMonitor \/ CallReset

Mutations(D) ==
    \/ CallRegisterComponent(D)
    \/ CallMarkHealthy(D)
    \/ CallMarkDegraded(D)
    \/ CallMarkFailed(D)

Queries(D) ==
    \/ CallGetComponentHealth(D)
    \/ CallGetAllHealth(D)
    \/ CallGetSystemStatus(D)
    \/ CallIsSystemHealthy
    \/ CallIsSystemDegraded

\* Statuses, counters and the aggregate: every operation, two names, both
\* fallback flags, no metadata.
AggDom ==
    [names |-> Names, marked |-> Names, msgs |-> {"e1"}, fbs |-> BOOLEAN, metavals |-> {}, alias |-> FALSE,
     collab |-> {c \in CollabOutcomes : c.overall \in {"ok", "missing"} /\ ~Escapes(c)},
     cap |-> MaxCount]

Next == Lifecycle \/ Mutations(AggDom) \/ Queries(AggDom)

Spec == SeqInit /\ [][Next]_vars

\* Metadata and returned values: dict contents, dict objects passed twice,
\* and writes into what a query returned.
MetaDom ==
    [names |-> Names, marked |-> {"x"}, msgs |-> {"e1"}, fbs |-> {TRUE}, metavals |-> MetaVals, alias |-> TRUE,
     collab |-> {c \in CollabOutcomes : c.overall = "ok"}, cap |-> MaxCountMeta]

MetaNext ==
    \/ CallGetHealthMonitor
    \/ Mutations(MetaDom)
    \/ CallGetComponentHealth(MetaDom)
    \/ CallGetAllHealth(MetaDom)
    \/ MutateReturned

SpecMeta == SeqInit /\ [][MetaNext]_vars

\* The resource-metrics collaborator: every outcome of it, beside the
\* mutations of two names.
CollabDom ==
    [names |-> Names, marked |-> Names, msgs |-> {"e1"}, fbs |-> {TRUE}, metavals |-> {}, alias |-> FALSE,
     collab |-> CollabOutcomes, cap |-> MaxCountCollab]

CollabNext ==
    \/ CallGetHealthMonitor
    \/ Mutations(CollabDom)
    \/ CallGetComponentHealth(CollabDom)
    \/ CallGetAllHealth(CollabDom)
    \/ CallGetSystemStatus(CollabDom)

SpecCollab == SeqInit /\ [][CollabNext]_vars

----------------------------------------------------------------------------
(* Concurrent callers of one instance.  A thread runs one handler, one      *)
(* statement per step.  `with self._component_lock` acquires the RLock the  *)
(* instance refers to at that moment and releases that same object; the     *)
(* owner's nested acquisition in register_component lies within step 1.     *)

NThreads == 2

MarkOps == {"mark_healthy", "mark_degraded", "mark_failed"}
LockedOps == MarkOps \cup {"register_component", "get_component_health"}
CollabOps == {"get_all_health", "get_system_status"}

NoCall == Call("none", "none", "None", FALSE, MetaNone)
NoLock == <<0, 0>>

\* the fields of a record a reader looks at
View(c) ==
    [status |-> c.status, error_count |-> c.error_count,
     warning_count |-> c.warning_count, last_error |-> c.last_error,
     fallback_active |-> c.fallback_active]

NoView ==
    [status |-> "none", error_count |-> 0, warning_count |-> 0,
     last_error |-> "None", fallback_active |-> FALSE]
NoHeld == [name |-> "none", live |-> FALSE, value |-> NoView]

\* pc: the thread's position; self: the instance it calls; lk: the lock
\* object it holds; held: the record get_component_health returned to it;
\* rd: how many fields it has read from that record; obs: the fields it
\* read; before, after: the record of call.name when the thread entered the
\* handler and as the handler leaves it; result: what get_all_health
\* returned.
Thread(inst) ==
    [pc |-> "idle", call |-> NoCall, self |-> inst, i |-> 0, lk |-> NoLock,
     held |-> NoHeld, rd |-> 0,
     obs |-> [seen |-> NoView, before |-> NoView, after |-> NoView],
     before |-> NoView, after |-> NoView, result |-> RetNone]

LockOf(inst) == <<inst, objs[inst].lock_gen>>

\* threading.RLock: free, or already owned by the caller
CanAcquire(t, k) == \A l \in locks : l.lock = k => l.owner = t

ThreadInit(T) ==
    /\ objs = (1 :> InitFields(NewObject))
    /\ cls_instance = 1
    /\ health_monitor = 0
    /\ heap = [i \in {} |-> EmptyMap]
    /\ h = 0
    /\ ret = RetNone
    /\ reset_seen = FALSE
    /\ seen = {}
    /\ threads = [t \in T |-> Thread(1)]
    /\ locks = {}
    /\ init_lock = 0
    /\ retired = {}
    /\ window = {}
    /\ sink = << >>

\* thread t calls c on its instance
ThreadBegin(t, c) ==
    /\ threads[t].pc = "idle"
    /\ threads' = [threads EXCEPT ![t].pc = "acquire", ![t].call = c]
    /\ UNCHANGED <<sink, seen, objs, cls_instance, health_monitor, heap, h, ret, reset_seen,
                   locks, init_lock, retired, window>>

\* `with self._component_lock:` entered.  No thread here runs __init__, so
\* the lock the instance refers to is the same object throughout.
Acquire(t) ==
    LET th == threads[t]
        k == LockOf(th.self)
        st == StOf(objs[th.self], heap)
        marks == th.call.op \in MarkOps
    IN  /\ th.pc = "acquire"
        /\ CanAcquire(t, k)
        /\ locks' = locks \cup {[lock |-> k, owner |-> t]}
        /\ threads' = [threads EXCEPT ![t] =
              [th EXCEPT !.lk = k, !.i = 1,
                         !.pc = IF th.call.op \in CollabOps THEN "collab" ELSE "step",
                         !.before = IF marks /\ th.call.name \in DOMAIN st.components
                                    THEN View(st.components[th.call.name]) ELSE NoView,
                         !.after = IF marks
                                   THEN View(Run(st, th.call).components[th.call.name])
                                   ELSE NoView]]
        /\ UNCHANGED <<sink, seen, objs, cls_instance, health_monitor, heap, h, ret, reset_seen,
                       init_lock, retired, window>>

\* the next statement of the handler.  When register_component rebinds a
\* name, a record handed out earlier lives on with the fields it had.
DoStep(t) ==
    LET th == threads[t]
        o == objs[th.self]
        st == Step(th.i, StOf(o, heap), th.call)
        no == [objs EXCEPT ![th.self] = Store(o, st)]
        rebinds == th.call.op = "register_component" /\ th.call.name \in DOMAIN o.components
    IN  /\ th.pc = "step"
        /\ objs' = no
        /\ heap' = Restrict(st.heap, Refs(no))
        /\ threads' = [u \in DOMAIN threads |->
              IF u = t
              THEN [th EXCEPT !.i = @ + 1,
                              !.pc = IF th.i = NSteps(th.call) THEN "release" ELSE "step"]
              ELSE IF rebinds /\ threads[u].held.live /\ threads[u].held.name = th.call.name
                             /\ threads[u].self = th.self
                   THEN [threads[u] EXCEPT !.held.live = FALSE,
                                           !.held.value = View(o.components[th.call.name])]
                   ELSE threads[u]]
        /\ UNCHANGED <<sink, seen, cls_instance, health_monitor, h, ret, reset_seen,
                       locks, init_lock, retired, window>>

\* the collaborator answers the thread that called it from get_all_health
\* (lines 232-268); the thread has held the lock since line 225, and since
\* line 313 when get_system_status made the call.  An exception that is
\* not caught leaves the with blocks, which release the lock.
CollabReturn(t, co) ==
    LET th == threads[t]
    IN  /\ th.pc = "collab"
        /\ threads' = [threads EXCEPT ![t].pc = "release",
                          ![t].result =
                              IF Escapes(co) THEN Raised(th.call.op, co)
                              ELSE IF th.call.op = "get_all_health"
                              THEN [kind |-> "all",
                                    value |-> get_all_health(objs[th.self], heap, co)]
                              ELSE [kind |-> "status",
                                    value |-> get_system_status(objs[th.self], heap, co)]]
        /\ UNCHANGED <<sink, seen, objs, cls_instance, health_monitor, heap, h, ret, reset_seen,
                       locks, init_lock, retired, window>>

\* the with block is left and the handler returns; get_component_health
\* returns the stored record (line 216)
Release(t) ==
    LET th == threads[t]
        query == th.call.op = "get_component_health"
    IN  /\ th.pc = "release"
        /\ locks' = {l \in locks : l.lock # th.lk}
        /\ threads' = [threads EXCEPT ![t] =
              [th EXCEPT !.lk = NoLock,
                         !.pc = IF query THEN "reading" ELSE "done",
                         !.held = IF query
                                  THEN [name |-> th.call.name, live |-> TRUE, value |-> NoView]
                                  ELSE NoHeld]]
        /\ UNCHANGED <<sink, seen, objs, cls_instance, health_monitor, heap, h, ret, reset_seen,
                       init_lock, retired, window>>

\* the threads that have entered a mark_* handler on the record t holds
Writers(t) ==
    {w \in DOMAIN threads \ {t} :
        /\ threads[w].pc \in {"step", "release", "done"}
        /\ threads[w].call.op \in MarkOps
        /\ threads[t].held.live
        /\ threads[w].call.name = threads[t].held.name
        /\ threads[w].self = threads[t].self}

\* the caller reads the next field of the record it was handed, lock not
\* held, in the order of to_dict (lines 46-52); with the last field read,
\* obs holds what it read beside the record before and after the mark_*
\* call of another thread
ReadField(t) ==
    LET th == threads[t]
        order == <<"status", "error_count", "warning_count", "last_error",
                   "fallback_active">>
        f == order[th.rd + 1]
        rec == IF th.held.live THEN View(objs[th.self].components[th.held.name])
               ELSE th.held.value
        read == [th.obs.seen EXCEPT ![f] = rec[f]]
        last == th.rd + 1 = Len(order)
        ws == Writers(t)
    IN  /\ th.pc = "reading"
        /\ threads' = [threads EXCEPT ![t].pc = IF last THEN "done" ELSE "reading",
                          ![t].rd = @ + 1,
                          ![t].obs =
                              IF ~last THEN [th.obs EXCEPT !.seen = read]
                              ELSE [seen |-> read,
                                    before |-> IF ws = {} THEN rec
                                               ELSE threads[CHOOSE w \in ws : TRUE].before,
                                    after |-> IF ws = {} THEN rec
                                              ELSE threads[CHOOSE w \in ws : TRUE].after]]
        /\ UNCHANGED <<sink, seen, objs, cls_instance, health_monitor, heap, h, ret, reset_seen,
                       locks, init_lock, retired, window>>

\* once every thread has returned, get_all_health() from the main thread
BarrierGetAll(co) ==
    /\ \A t \in DOMAIN threads : threads[t].pc = "done"
    /\ ret.kind = "none"
    /\ ret' = [kind |-> "all", value |-> get_all_health(objs[1], heap, co), collab |-> co]
    /\ UNCHANGED <<sink, seen, objs, cls_instance, health_monitor, heap, h, reset_seen,
                   threads, locks, init_lock, retired, window>>

\* N threads, thread t marking a name of its own with arguments of its own,
\* on a registry that has seen no component; then the barrier.
BarrierNames == <<"x", "y", "z", "w">>
BarrierMsgs == <<"e1", "e2", "e3", "e4">>

BarrierMeta(t) == {MetaNone, MetaFresh([k \in {"a"} |-> BarrierMsgs[t]])}

BarrierCalls(t) ==
    {Call("mark_healthy", BarrierNames[t], "None", FALSE, md) : md \in BarrierMeta(t)}
    \cup {Call("mark_degraded", BarrierNames[t], BarrierMsgs[t], fb, md) :
             fb \in BOOLEAN, md \in BarrierMeta(t)}
    \cup {Call("mark_failed", BarrierNames[t], BarrierMsgs[t], FALSE, md) :
             md \in BarrierMeta(t)}

BarrierInit == ThreadInit(1..NThreads)

BarrierNext ==
    \/ \E t \in DOMAIN threads : \E c \in BarrierCalls(t) : ThreadBegin(t, c)
    \/ \E t \in DOMAIN threads : Acquire(t)
    \/ \E t \in DOMAIN threads : DoStep(t)
    \/ \E t \in DOMAIN threads : Release(t)
    \/ \E co \in {c \in CollabOutcomes : c.overall = "ok"} : BarrierGetAll(co)

SpecBarrier == BarrierInit /\ [][BarrierNext]_vars

\* Two threads, each making one call of any kind on names x and y.
ThreadCalls ==
    {Call(op, n, "None", FALSE, MetaNone) :
        op \in {"register_component", "mark_healthy", "get_component_health"}, n \in Names}
    \cup {Call("mark_degraded", n, "e1", TRUE, MetaNone) : n \in Names}
    \cup {Call("mark_failed", n, "e1", FALSE, MetaNone) : n \in Names}
    \cup {Call(op, "none", "None", FALSE, MetaNone) : op \in CollabOps}

ThreadsInit == ThreadInit({1, 2})

ThreadsNext ==
    \/ \E t \in DOMAIN threads : \E c \in ThreadCalls : ThreadBegin(t, c)
    \/ \E t \in DOMAIN threads : Acquire(t)
    \/ \E t \in DOMAIN threads : DoStep(t)
    \/ \E t \in DOMAIN threads : \E co \in CollabOutcomes : CollabReturn(t, co)
    \/ \E t \in DOMAIN threads : Release(t)
    \/ \E t \in DOMAIN threads : ReadField(t)

SpecThreads == ThreadsInit /\ [][ThreadsNext]_vars

----------------------------------------------------------------------------
(* Concurrent callers of the singleton.  Each thread makes up to MaxCalls   *)
(* calls, one after the other, of get_health_monitor(),                     *)
(* SystemHealthMonitor() and reset() on the instance it was last handed;    *)
(* every line of these is one step.  Instances are never collected here.    *)

MaxCalls == 3

AccessorOps == {"get_health_monitor", "SystemHealthMonitor"}
NoResult == -1

\* op, pc: the call in progress and the line it is at; handle: the instance
\* the thread was last handed (0: None); tmp: the value __new__ returned;
\* result: what the last accessor call returned; start_retired: the
\* instances already reset when that call began; overlapped: a reset() was
\* running at some moment of that call; name: the component of the
\* register_component call in progress; touched: the instances whose lock
\* the thread has acquired or in which it has recorded a component.
Caller ==
    [pc |-> "idle", op |-> "none", handle |-> 0, tmp |-> 0, result |-> NoResult,
     calls |-> 0, start_retired |-> {}, overlapped |-> FALSE, lk |-> NoLock,
     name |-> "none", touched |-> {}]

SingletonInit ==
    /\ objs = [i \in {} |-> NewObject]
    /\ cls_instance = 0
    /\ health_monitor = 0
    /\ heap = [i \in {} |-> EmptyMap]
    /\ h = 0
    /\ ret = RetNone
    /\ reset_seen = FALSE
    /\ seen = {}
    /\ threads = [t \in {1, 2} |-> Caller]
    /\ locks = {}
    /\ init_lock = 0
    /\ retired = {}
    /\ window = {}
    /\ sink = << >>

ResetRunning == \E u \in DOMAIN threads : threads[u].op = "reset"

\* the accessor calls in progress, marked as overlapping a reset
Overlap(ths) ==
    [u \in DOMAIN ths |->
        IF ths[u].op \in AccessorOps THEN [ths[u] EXCEPT !.overlapped = TRUE] ELSE ths[u]]

\* thread t moves to line p
Goto(t, p) == threads' = [threads EXCEPT ![t].pc = p]

At(t, p) == threads[t].pc = p

BeginAccessor(t, op) ==
    /\ At(t, "idle")
    /\ threads[t].calls < MaxCalls
    /\ threads' = [threads EXCEPT ![t] =
          [@ EXCEPT !.op = op, !.tmp = 0, !.result = NoResult, !.calls = @ + 1,
                    !.pc = IF op = "get_health_monitor" THEN "g368" ELSE "n70",
                    !.start_retired = retired, !.overlapped = ResetRunning]]
    /\ UNCHANGED <<sink, seen, objs, cls_instance, health_monitor, heap, h, ret, reset_seen,
                   locks, init_lock, retired, window>>

\* line 368: if _health_monitor is None
GetTest(t) ==
    /\ At(t, "g368")
    /\ Goto(t, IF health_monitor = 0 THEN "n70" ELSE "g370")
    /\ UNCHANGED <<sink, seen, objs, cls_instance, health_monitor, heap, h, ret, reset_seen,
                   locks, init_lock, retired, window>>

\* line 70: if cls._instance is None
NewTest(t) ==
    /\ At(t, "n70")
    /\ Goto(t, IF cls_instance = 0 THEN "n71" ELSE "n75")
    /\ UNCHANGED <<sink, seen, objs, cls_instance, health_monitor, heap, h, ret, reset_seen,
                   locks, init_lock, retired, window>>

\* line 71: with cls._init_lock
NewLock(t) ==
    /\ At(t, "n71")
    /\ init_lock = 0
    /\ init_lock' = t
    /\ Goto(t, "n72")
    /\ UNCHANGED <<sink, seen, objs, cls_instance, health_monitor, heap, h, ret, reset_seen,
                   locks, retired, window>>

\* line 72: if cls._instance is None
NewTestLocked(t) ==
    /\ At(t, "n72")
    /\ Goto(t, IF cls_instance = 0 THEN "n73" ELSE "n74x")
    /\ UNCHANGED <<sink, seen, objs, cls_instance, health_monitor, heap, h, ret, reset_seen,
                   locks, init_lock, retired, window>>

\* line 73: cls._instance = super().__new__(cls)
NewCreate(t) ==
    /\ At(t, "n73")
    /\ objs' = (FreshId(objs) :> NewObject) @@ objs
    /\ cls_instance' = FreshId(objs)
    /\ Goto(t, "n74")
    /\ UNCHANGED <<sink, seen, health_monitor, heap, h, ret, reset_seen,
                   locks, init_lock, retired, window>>

\* line 74: cls._instance._initialized = False
NewFlag(t) ==
    /\ At(t, "n74")
    /\ objs' = [objs EXCEPT ![cls_instance].initialized = FALSE]
    /\ Goto(t, "n74x")
    /\ UNCHANGED <<sink, seen, cls_instance, health_monitor, heap, h, ret, reset_seen,
                   locks, init_lock, retired, window>>

\* the with block of line 71 is left
NewUnlock(t) ==
    /\ At(t, "n74x")
    /\ init_lock' = 0
    /\ Goto(t, "n75")
    /\ UNCHANGED <<sink, seen, objs, cls_instance, health_monitor, heap, h, ret, reset_seen,
                   locks, retired, window>>

\* line 75: return cls._instance.  __init__ runs on an instance; when the
\* attribute reads None there is none and the constructor call is over.
NewReturn(t) ==
    /\ At(t, "n75")
    /\ threads' = [threads EXCEPT ![t].tmp = cls_instance,
                                  ![t].pc = IF cls_instance = 0 THEN "ctor" ELSE "i79"]
    /\ UNCHANGED <<sink, seen, objs, cls_instance, health_monitor, heap, h, ret, reset_seen,
                   locks, init_lock, retired, window>>

\* line 79: if getattr(self, '_initialized', False): return
InitTest(t) ==
    /\ At(t, "i79")
    /\ Goto(t, IF objs[threads[t].tmp].initialized THEN "ctor" ELSE "i82")
    /\ UNCHANGED <<sink, seen, objs, cls_instance, health_monitor, heap, h, ret, reset_seen,
                   locks, init_lock, retired, window>>

\* line 82: self._initialized = True
InitFlag(t) ==
    /\ At(t, "i82")
    /\ objs' = [objs EXCEPT ![threads[t].tmp].initialized = TRUE]
    /\ Goto(t, "i83")
    /\ UNCHANGED <<sink, seen, cls_instance, health_monitor, heap, h, ret, reset_seen,
                   locks, init_lock, retired, window>>

\* line 83: self._components = {}
InitComponents(t) ==
    /\ At(t, "i83")
    /\ objs' = [objs EXCEPT ![threads[t].tmp].components = EmptyComps]
    /\ Goto(t, "i84")
    /\ UNCHANGED <<sink, seen, cls_instance, health_monitor, heap, h, ret, reset_seen,
                   locks, init_lock, retired, window>>

\* line 84: self._component_lock = RLock()
InitLock(t) ==
    /\ At(t, "i84")
    /\ objs' = [objs EXCEPT ![threads[t].tmp].lock_gen = @ + 1]
    /\ Goto(t, "i85")
    /\ UNCHANGED <<sink, seen, cls_instance, health_monitor, heap, h, ret, reset_seen,
                   locks, init_lock, retired, window>>

\* line 85: self._system_status = HealthStatus.HEALTHY
InitStatus(t) ==
    /\ At(t, "i85")
    /\ objs' = [objs EXCEPT ![threads[t].tmp].system_status = HEALTHY,
                            ![threads[t].tmp].has_attrs = TRUE]
    /\ Goto(t, "ctor")
    /\ UNCHANGED <<sink, seen, cls_instance, health_monitor, heap, h, ret, reset_seen,
                   locks, init_lock, retired, window>>

\* an accessor call returns r to thread t
Return(t, r) ==
    /\ threads' = [threads EXCEPT ![t].pc = "idle", ![t].op = "none",
                                  ![t].result = r, ![t].handle = r, ![t].tmp = 0]
    /\ window' = IF threads[t].overlapped THEN window ELSE window \cup {r}
    /\ UNCHANGED <<sink, seen, objs, cls_instance, health_monitor, heap, h, ret, reset_seen,
                   locks, init_lock, retired>>

\* SystemHealthMonitor() yields its value to the caller
ConstructorReturn(t) ==
    /\ At(t, "ctor")
    /\ threads[t].op = "SystemHealthMonitor"
    /\ Return(t, threads[t].tmp)

\* line 369: _health_monitor = SystemHealthMonitor()
GetAssign(t) ==
    /\ At(t, "ctor")
    /\ threads[t].op = "get_health_monitor"
    /\ health_monitor' = threads[t].tmp
    /\ Goto(t, "g370")
    /\ UNCHANGED <<sink, seen, objs, cls_instance, heap, h, ret, reset_seen,
                   locks, init_lock, retired, window>>

\* line 370: return _health_monitor
GetReturn(t) ==
    /\ At(t, "g370")
    /\ Return(t, health_monitor)

\* thread t calls reset() on the instance it holds
BeginReset(t) ==
    /\ At(t, "idle")
    /\ threads[t].calls < MaxCalls
    /\ threads[t].handle # 0
    /\ threads' = [Overlap(threads) EXCEPT ![t] =
          [@ EXCEPT !.op = "reset", !.pc = "r345", !.calls = @ + 1, !.result = NoResult,
                    !.start_retired = {}]]
    /\ window' = {}
    /\ UNCHANGED <<sink, seen, objs, cls_instance, health_monitor, heap, h, ret, reset_seen,
                   locks, init_lock, retired>>

\* line 345: `with self._component_lock` reads the attribute; the thread
\* then waits for the lock object it read.  On an instance that has no
\* _component_lock yet: AttributeError.
ResetReadLock(t) ==
    /\ At(t, "r345")
    /\ threads' = [threads EXCEPT ![t] =
          IF objs[threads[t].handle].lock_gen = 0
          THEN [@ EXCEPT !.pc = "idle", !.op = "none"]
          ELSE [@ EXCEPT !.pc = "r345w", !.lk = LockOf(threads[t].handle)]]
    /\ UNCHANGED <<sink, seen, objs, cls_instance, health_monitor, heap, h, ret, reset_seen,
                   locks, init_lock, retired, window>>

\* line 345: the lock object read there is acquired
ResetAcquire(t) ==
    /\ At(t, "r345w")
    /\ CanAcquire(t, threads[t].lk)
    /\ locks' = locks \cup {[lock |-> threads[t].lk, owner |-> t]}
    /\ threads' = [threads EXCEPT ![t].pc = "r346",
                                  ![t].touched = @ \cup {threads[t].handle}]
    /\ UNCHANGED <<sink, seen, objs, cls_instance, health_monitor, heap, h, ret, reset_seen,
                   init_lock, retired, window>>

\* line 346: self._components.clear()
ResetClear(t) ==
    /\ At(t, "r346")
    /\ objs' = [objs EXCEPT ![threads[t].handle].components = EmptyComps]
    /\ Goto(t, "r347")
    /\ UNCHANGED <<sink, seen, cls_instance, health_monitor, heap, h, ret, reset_seen,
                   locks, init_lock, retired, window>>

\* line 347: self._system_status = HealthStatus.HEALTHY.  The assignment
\* creates the attribute when __init__ has not reached line 85; lines 345
\* and 346 have found the other two.
ResetStatus(t) ==
    /\ At(t, "r347")
    /\ objs' = [objs EXCEPT ![threads[t].handle].system_status = HEALTHY,
                            ![threads[t].handle].has_attrs = TRUE]
    /\ Goto(t, "r349")
    /\ UNCHANGED <<sink, seen, cls_instance, health_monitor, heap, h, ret, reset_seen,
                   locks, init_lock, retired, window>>

\* line 349: self._initialized = False
ResetFlag(t) ==
    /\ At(t, "r349")
    /\ objs' = [objs EXCEPT ![threads[t].handle].initialized = FALSE]
    /\ Goto(t, "r350")
    /\ UNCHANGED <<sink, seen, cls_instance, health_monitor, heap, h, ret, reset_seen,
                   locks, init_lock, retired, window>>

\* the with block of line 345 is left
ResetRelease(t) ==
    /\ At(t, "r350")
    /\ locks' = {l \in locks : l.lock # threads[t].lk}
    /\ threads' = [threads EXCEPT ![t].pc = "r354", ![t].lk = NoLock]
    /\ UNCHANGED <<sink, seen, objs, cls_instance, health_monitor, heap, h, ret, reset_seen,
                   init_lock, retired, window>>

\* line 354: with self._init_lock
ResetLockInit(t) ==
    /\ At(t, "r354")
    /\ init_lock = 0
    /\ init_lock' = t
    /\ Goto(t, "r355")
    /\ UNCHANGED <<sink, seen, objs, cls_instance, health_monitor, heap, h, ret, reset_seen,
                   locks, retired, window>>

\* line 355: SystemHealthMonitor._instance = None
ResetInstance(t) ==
    /\ At(t, "r355")
    /\ cls_instance' = ResetGlobal(cls_instance)
    /\ Goto(t, "r358")
    /\ UNCHANGED <<sink, seen, objs, health_monitor, heap, h, ret, reset_seen,
                   locks, init_lock, retired, window>>

\* line 358: _health_monitor = None
ResetMonitor(t) ==
    /\ At(t, "r358")
    /\ health_monitor' = ResetGlobal(health_monitor)
    /\ Goto(t, "r359")
    /\ UNCHANGED <<sink, seen, objs, cls_instance, heap, h, ret, reset_seen,
                   locks, init_lock, retired, window>>

\* the with block of line 354 is left and reset() returns
ResetReturn(t) ==
    /\ At(t, "r359")
    /\ init_lock' = 0
    /\ retired' = retired \cup {threads[t].handle}
    /\ window' = {}
    /\ threads' = [Overlap(threads) EXCEPT ![t].pc = "idle", ![t].op = "none"]
    /\ UNCHANGED <<sink, seen, objs, cls_instance, health_monitor, heap, h, ret, reset_seen, locks>>

RegisterNames == {"x"}

\* thread t calls register_component(n) on the instance it holds
BeginRegister(t, n) ==
    /\ At(t, "idle")
    /\ threads[t].calls < MaxCalls
    /\ threads[t].handle # 0
    /\ threads' = [threads EXCEPT ![t] =
          [@ EXCEPT !.op = "register_component", !.pc = "c96", !.calls = @ + 1,
                    !.name = n, !.result = NoResult]]
    /\ UNCHANGED <<sink, seen, objs, cls_instance, health_monitor, heap, h, ret, reset_seen,
                   locks, init_lock, retired, window>>

\* line 96: `with self._component_lock` reads the attribute; the thread
\* then waits for the lock object it read.  On an instance that has no
\* _component_lock yet: AttributeError.
RegisterReadLock(t) ==
    /\ At(t, "c96")
    /\ threads' = [threads EXCEPT ![t] =
          IF objs[threads[t].handle].lock_gen = 0
          THEN [@ EXCEPT !.pc = "idle", !.op = "none"]
          ELSE [@ EXCEPT !.pc = "c96w", !.lk = LockOf(threads[t].handle)]]
    /\ UNCHANGED <<sink, seen, objs, cls_instance, health_monitor, heap, h, ret, reset_seen,
                   locks, init_lock, retired, window>>

\* line 96: the lock object read there is acquired
RegisterAcquire(t) ==
    /\ At(t, "c96w")
    /\ CanAcquire(t, threads[t].lk)
    /\ locks' = locks \cup {[lock |-> threads[t].lk, owner |-> t]}
    /\ threads' = [threads EXCEPT ![t].pc = "c97",
                                  ![t].touched = @ \cup {threads[t].handle}]
    /\ UNCHANGED <<sink, seen, objs, cls_instance, health_monitor, heap, h, ret, reset_seen,
                   init_lock, retired, window>>

\* lines 97-102: self._components[name] = ComponentHealth(...)
RegisterInsert(t) ==
    LET i == threads[t].handle
        st == register_component(StOf(objs[i], heap), threads[t].name, MetaNone)
    IN  /\ At(t, "c97")
        /\ objs' = [objs EXCEPT ![i] = Store(objs[i], st)]
        /\ heap' = st.heap
        /\ Goto(t, "c103")
        /\ UNCHANGED <<sink, seen, cls_instance, health_monitor, h, ret, reset_seen,
                       locks, init_lock, retired, window>>

\* the with block of line 96 is left and register_component returns
RegisterRelease(t) ==
    /\ At(t, "c103")
    /\ locks' = {l \in locks : l.lock # threads[t].lk}
    /\ threads' = [threads EXCEPT ![t].pc = "idle", ![t].op = "none", ![t].lk = NoLock]
    /\ UNCHANGED <<sink, seen, objs, cls_instance, health_monitor, heap, h, ret, reset_seen,
                   init_lock, retired, window>>

SingletonNext ==
    \/ \E t \in DOMAIN threads : \E op \in AccessorOps : BeginAccessor(t, op)
    \/ \E t \in DOMAIN threads : GetTest(t)
    \/ \E t \in DOMAIN threads : NewTest(t)
    \/ \E t \in DOMAIN threads : NewLock(t)
    \/ \E t \in DOMAIN threads : NewTestLocked(t)
    \/ \E t \in DOMAIN threads : NewCreate(t)
    \/ \E t \in DOMAIN threads : NewFlag(t)
    \/ \E t \in DOMAIN threads : NewUnlock(t)
    \/ \E t \in DOMAIN threads : NewReturn(t)
    \/ \E t \in DOMAIN threads : InitTest(t)
    \/ \E t \in DOMAIN threads : InitFlag(t)
    \/ \E t \in DOMAIN threads : InitComponents(t)
    \/ \E t \in DOMAIN threads : InitLock(t)
    \/ \E t \in DOMAIN threads : InitStatus(t)
    \/ \E t \in DOMAIN threads : ConstructorReturn(t)
    \/ \E t \in DOMAIN threads : GetAssign(t)
    \/ \E t \in DOMAIN threads : GetReturn(t)
    \/ \E t \in DOMAIN threads : BeginReset(t)
    \/ \E t \in DOMAIN threads : ResetReadLock(t)
    \/ \E t \in DOMAIN threads : ResetAcquire(t)
    \/ \E t \in DOMAIN threads : ResetClear(t)
    \/ \E t \in DOMAIN threads : ResetStatus(t)
    \/ \E t \in DOMAIN threads : ResetFlag(t)
    \/ \E t \in DOMAIN threads : ResetRelease(t)
    \/ \E t \in DOMAIN threads : ResetLockInit(t)
    \/ \E t \in DOMAIN threads : ResetInstance(t)
    \/ \E t \in DOMAIN threads : ResetMonitor(t)
    \/ \E t \in DOMAIN threads : ResetReturn(t)

SpecSingleton == SingletonInit /\ [][SingletonNext]_vars

\* The same callers, which also record components in the instance they hold.
RegistryNext ==
    \/ SingletonNext
    \/ \E t \in DOMAIN threads : \E n \in RegisterNames : BeginRegister(t, n)
    \/ \E t \in DOMAIN threads : RegisterReadLock(t)
    \/ \E t \in DOMAIN threads : RegisterAcquire(t)
    \/ \E t \in DOMAIN threads : RegisterInsert(t)
    \/ \E t \in DOMAIN threads : RegisterRelease(t)

SpecRegistry == SingletonInit /\ [][RegistryNext]_vars

----------------------------------------------------------------------------
(* core/audit_logger.py.  A text is a sequence of pieces; a piece is one of *)
(* the characters line feed, carriage return, tab, backslash, single quote *)
(* and double quote, or a string of printable characters other than these. *)
(* A value of a details dict is a str, or an object of another type given  *)
(* by the text its repr() is.  A dict is the sequence of its items in      *)
(* insertion order; its keys are single pieces.                            *)

MaxEvents == 2

LF == "\n"
CR == "\r"

\* class AuditEventType (lines 16-26)
AuditEventType ==
    {"auth_success", "auth_failure", "access_denied", "config_change", "phase_change",
     "chaos_injection", "api_access", "admin_action", "security_violation"}

\* self.logger.setLevel(logging.INFO) (line 50): a record passes when its
\* level is INFO (20) or above
IsEnabledFor(level) ==
    LET levelno == [DEBUG |-> 10, INFO |-> 20, WARNING |-> 30, ERROR |-> 40, CRITICAL |-> 50]
    IN  levelno[level] >= levelno["INFO"]

StrVal(t) == [kind |-> "str", text |-> t]
ObjVal(t) == [kind |-> "obj", text |-> t]

\* repr() of the characters of a str between the quotes q: the backslash,
\* the quote in use and the control characters are escaped
RECURSIVE Escape(_, _)
Escape(t, q) ==
    IF t = << >> THEN << >>
    ELSE (IF Head(t) = LF THEN <<"\\", "n">>
          ELSE IF Head(t) = CR THEN <<"\\", "r">>
          ELSE IF Head(t) = "\t" THEN <<"\\", "t">>
          ELSE IF Head(t) = "\\" THEN <<"\\", "\\">>
          ELSE IF Head(t) = q THEN <<"\\", q>>
          ELSE <<Head(t)>>)
         \o Escape(Tail(t), q)

\* repr(value): a str is quoted (in double quotes when it holds a single
\* quote and no double quote) and escaped, another object gives its own text
Repr(v) ==
    LET has(c) == \E i \in 1..Len(v.text) : v.text[i] = c
        q == IF has("'") /\ ~has("\"") THEN "\"" ELSE "'"
    IN  IF v.kind = "str" THEN <<q>> \o Escape(v.text, q) \o <<q>> ELSE v.text

Item(k, v) == [key |-> k, value |-> v]
DetailsNone == [none |-> TRUE, items |-> << >>]
Dict(items) == [none |-> FALSE, items |-> items]

\* d[k] = v
RECURSIVE DictSet(_, _, _)
DictSet(items, k, v) ==
    IF items = << >> THEN <<Item(k, v)>>
    ELSE IF Head(items).key = k THEN <<Item(k, v)>> \o Tail(items)
    ELSE <<Head(items)>> \o DictSet(Tail(items), k, v)

\* {**a, **b}
RECURSIVE DictMerge(_, _)
DictMerge(a, b) ==
    IF b = << >> THEN a ELSE DictMerge(DictSet(a, Head(b).key, Head(b).value), Tail(b))

RECURSIVE JoinItems(_)
JoinItems(items) ==
    IF items = << >> THEN << >>
    ELSE Repr(StrVal(<<Head(items).key>>)) \o <<": ">> \o Repr(Head(items).value)
         \o (IF Tail(items) = << >> THEN << >> ELSE <<", ">> \o JoinItems(Tail(items)))

\* str(details) of a dict
StrDict(items) == <<"{">> \o JoinItems(items) \o <<"}">>

\* str.replace(old, new) for a one-character old
Replace(t, old, new) == [i \in 1..Len(t) |-> IF t[i] = old THEN new ELSE t[i]]

\* lines 93-95; `if details:` is false for None and for an empty dict
DetailsStr(d) ==
    IF ~d.none /\ d.items # << >> THEN Replace(Replace(StrDict(d.items), LF, " "), CR, " ") ELSE << >>

\* logging.Formatter with the format string of line 64: each %(field)s is
\* replaced by the field's text as it is; "asctime" stands for the time of
\* the record, rendered with datefmt (line 65)
Format(levelname, extra) ==
    <<"asctime", " - ", levelname, " - ", extra.event_type, " - ">>
    \o extra.user \o <<" - ">> \o extra.ip \o <<" - ">> \o extra.resource \o <<" - ">>
    \o extra.action \o <<" - ">> \o extra.details

\* log_event (lines 71-107) on the texts sk emitted so far: the one handler
\* of the 'audit' logger is handed the formatted record
log_event(sk, event_type, user, ip, resource, action, details, level) ==
    LET extra == [event_type |-> event_type, user |-> user, ip |-> ip,
                  resource |-> resource, action |-> action, details |-> DetailsStr(details)]
    IN  IF IsEnabledFor(level) THEN Append(sk, Format(level, extra)) ELSE sk

(* The caller of the audit logger *)

CleanText == <<"a">>
AuditTexts == {CleanText, <<"a", LF, "b", CR>>}
AuditValues == {StrVal(<<"a", LF, "\t", "'", "b">>), ObjVal(<<"a", LF, "b", CR>>)}
AuditDetails ==
    {DetailsNone, Dict(<< >>)} \cup {Dict(<<Item("k", v)>>) : v \in AuditValues}
    \cup {Dict(<<Item("violation_type", ObjVal(<<"v", LF>>))>>)}

\* the text arguments of a log_event call: none, one or all of them hold
\* line breaks
AuditFields == {"user", "ip", "resource", "action"}
AuditArgs ==
    {c \in [AuditFields -> AuditTexts] :
        Cardinality({f \in AuditFields : c[f] # CleanText}) \in {0, 1, 4}}
AuditLevels == {"DEBUG", "INFO", "CRITICAL"}
AuditInts == {0, 200}

AuditInit ==
    /\ objs = [i \in {} |-> NewObject]
    /\ cls_instance = 0
    /\ health_monitor = 0
    /\ heap = [i \in {} |-> EmptyMap]
    /\ h = 0
    /\ ret = RetNone
    /\ reset_seen = FALSE
    /\ seen = {}
    /\ threads = [t \in {} |-> NoCall]
    /\ locks = {}
    /\ init_lock = 0
    /\ retired = {}
    /\ window = {}
    /\ sink = << >>

\* one call that leaves the log as sk
Emit(sk) ==
    /\ Len(sink) < MaxEvents
    /\ sink' = sk
    /\ UNCHANGED <<seen, objs, cls_instance, health_monitor, heap, h, ret, reset_seen,
                   threads, locks, init_lock, retired, window>>

CallLogEvent ==
    \E e \in AuditEventType, c \in AuditArgs, d \in AuditDetails, level \in AuditLevels :
        Emit(log_event(sink, e, c.user, c.ip, c.resource, c.action, d, level))

\* log_auth_success (lines 109-118)
CallLogAuthSuccess ==
    \E user \in AuditTexts, ip \in AuditTexts, method \in AuditTexts :
        Emit(log_event(sink, "auth_success", user, ip, <<"authentication">>, <<"login">>,
                       Dict(<<Item("method", StrVal(method))>>), "INFO"))

\* log_auth_failure (lines 120-130)
CallLogAuthFailure ==
    \E user \in AuditTexts, ip \in AuditTexts, reason \in AuditTexts :
        Emit(log_event(sink, "auth_failure", user, ip, <<"authentication">>,
                       <<"login_attempt">>,
                       Dict(<<Item("reason", StrVal(reason))>>), "WARNING"))

\* log_access_denied (lines 132-142)
CallLogAccessDenied ==
    \E user \in AuditTexts, ip \in AuditTexts, resource \in AuditTexts, p \in AuditTexts :
        Emit(log_event(sink, "access_denied", user, ip, resource, <<"access_denied">>,
                       Dict(<<Item("required_permission", StrVal(p))>>), "WARNING"))

\* log_config_change (lines 144-157); str(value) of a value is its text
CallLogConfigChange ==
    \E user \in AuditTexts, ip \in AuditTexts, key \in AuditTexts,
       old \in AuditValues, new \in AuditValues :
        Emit(log_event(sink, "config_change", user, ip, <<"configuration">>, <<"change">>,
                       Dict(<<Item("config_key", StrVal(key)),
                              Item("old_value", StrVal(old.text)),
                              Item("new_value", StrVal(new.text))>>), "INFO"))

\* log_phase_change (lines 159-172)
CallLogPhaseChange ==
    \E user \in AuditTexts, ip \in AuditTexts, old \in AuditTexts, new \in AuditTexts,
       force \in BOOLEAN :
        Emit(log_event(sink, "phase_change", user, ip, <<"mission_phase">>, <<"change">>,
                       Dict(<<Item("old_phase", StrVal(old)),
                              Item("new_phase", StrVal(new)),
                              Item("force", ObjVal(<<IF force THEN "True" ELSE "False">>))>>),
                       "INFO"))

\* log_chaos_injection (lines 174-187)
CallLogChaosInjection ==
    \E user \in AuditTexts, ip \in AuditTexts, fault \in AuditTexts, duration \in AuditInts :
        Emit(log_event(sink, "chaos_injection", user, ip, <<"chaos_engine">>,
                       <<"inject_fault">>,
                       Dict(<<Item("fault_type", StrVal(fault)),
                              Item("duration_seconds", ObjVal(<<ToString(duration)>>))>>),
                       "WARNING"))

\* log_api_access (lines 189-198)
CallLogApiAccess ==
    \E user \in AuditTexts, ip \in AuditTexts, endpoint \in AuditTexts, method \in AuditTexts,
       code \in AuditInts :
        Emit(log_event(sink, "api_access", user, ip, endpoint, method,
                       Dict(<<Item("status_code", ObjVal(<<ToString(code)>>))>>), "INFO"))

\* log_admin_action (lines 200-209)
CallLogAdminAction ==
    \E user \in AuditTexts, ip \in AuditTexts, action \in AuditTexts, d \in AuditDetails :
        Emit(log_event(sink, "admin_action", user, ip, <<"admin">>, action, d, "INFO"))

\* log_security_violation (lines 211-221)
CallLogSecurityViolation ==
    \E user \in AuditTexts, ip \in AuditTexts, v \in AuditTexts, d \in AuditDetails :
        Emit(log_event(sink, "security_violation", user, ip, <<"security">>, <<"violation">>,
                       Dict(DictMerge(<<Item("violation_type", StrVal(v))>>, d.items)),
                       "ERROR"))

AuditNext ==
    \/ CallLogEvent
    \/ CallLogAuthSuccess
    \/ CallLogAuthFailure
    \/ CallLogAccessDenied
    \/ CallLogConfigChange
    \/ CallLogPhaseChange
    \/ CallLogChaosInjection
    \/ CallLogApiAccess
    \/ CallLogAdminAction
    \/ CallLogSecurityViolation

SpecAudit == AuditInit /\ [][AuditNext]_vars

----------------------------------------------------------------------------
(* Aggregate status (Spec) *)

Recorded == IF Usable THEN DOMAIN objs[h].components ELSE {}
StatusOf(n) == objs[h].components[n].status

\* C1: whenever some recorded component is FAILED or DEGRADED, the
\* aggregate is DEGRADED, as _system_status, as is_system_degraded() and as
\* get_system_status().overall_status report it.
C1_DegradedWhenAnyBad ==
    (\E n \in Recorded : StatusOf(n) \in {FAILED, DEGRADED})
    => /\ objs[h].system_status = DEGRADED
       /\ is_system_degraded(objs[h])
       /\ \A co \in CollabOutcomes :
             get_system_status(objs[h], heap, co).overall_status = "degraded"

\* a FAILED component beside a HEALTHY one, the aggregate DEGRADED
C1_Witness ==
    /\ \E n, m \in Recorded : StatusOf(n) = FAILED /\ StatusOf(m) = HEALTHY
    /\ objs[h].system_status = DEGRADED

\* C2: whenever at least one component is recorded and every recorded
\* component is HEALTHY, the aggregate is HEALTHY (it is never stale).
C2_HealthyWhenAllHealthy ==
    (Recorded # {} /\ \A n \in Recorded : StatusOf(n) = HEALTHY)
    => objs[h].system_status = HEALTHY

\* C3: the aggregate is HEALTHY only if at least one component is recorded
\* and every recorded component is HEALTHY.
C3_HealthyOnlyIfAllHealthy ==
    (Usable /\ objs[h].system_status = HEALTHY)
    => (Recorded # {} /\ \A n \in Recorded : StatusOf(n) = HEALTHY)

\* C4: the aggregate is UNKNOWN if and only if no component is recorded.
C4_UnknownIffEmpty ==
    Usable => (objs[h].system_status = UNKNOWN <=> Recorded = {})

\* C19: the aggregate of every instance is HEALTHY, DEGRADED or UNKNOWN,
\* never FAILED, and get_system_status() reports it so, however many
\* components are FAILED.
C19_AggregateNeverFailed ==
    /\ \A i \in DOMAIN objs : objs[i].system_status \in {HEALTHY, DEGRADED, UNKNOWN}
    /\ ret.kind = "status" => ret.value.overall_status \in {"healthy", "degraded", "unknown"}

\* every recorded component FAILED, two of them, and the aggregate DEGRADED
C19_Witness ==
    /\ Cardinality(Recorded) = 2
    /\ \A n \in Recorded : StatusOf(n) = FAILED
    /\ objs[h].system_status = DEGRADED

\* C11: the recorded names of the held instance are exactly the names
\* passed to register_component, mark_healthy, mark_degraded, mark_failed
\* or get_component_health since it was created or last reset, and
\* get_system_status().component_counts.total is their number.
C11_TotalCountsDistinctNames ==
    /\ Usable => DOMAIN objs[h].components = seen
    /\ ret.kind = "status" => ret.value.component_counts.total = Cardinality(seen)

\* a total of 2 reported with one name auto-registered by a lookup and the
\* other marked degraded
C11_Witness ==
    /\ ret.kind = "status"
    /\ ret.value.component_counts.total = 2
    /\ \E n, m \in seen : StatusOf(n) = UNKNOWN /\ StatusOf(m) = DEGRADED

\* the counters of n are not lower after the step than before it
CountersKept(n) ==
    /\ objs'[h'].components[n].error_count >= objs[h].components[n].error_count
    /\ objs'[h'].components[n].warning_count >= objs[h].components[n].warning_count

\* the step is a call register_component(n, ...) on the held instance
RegisterStep(n) ==
    /\ Usable
    /\ \E md \in MetaInputs(h, AggDom) :
          Mutate(Call("register_component", n, "None", FALSE, md))

\* C12 as stated: across every operation (reset apart, which leaves no
\* record), register_component on a registered name included, neither
\* counter of a component decreases.
C12_CountersNeverDecrease ==
    [][\A n \in Recorded \cap Recorded' : CountersKept(n)]_vars

\* C12 as the code has it: neither counter of a component decreases across
\* an operation, except that register_component on a registered name
\* replaces the record and leaves both counters 0.
C12_CountersKeptButOnRegister ==
    [][\A n \in Recorded \cap Recorded' :
          \/ CountersKept(n)
          \/ /\ RegisterStep(n)
             /\ objs'[h'].components[n].error_count = 0
             /\ objs'[h'].components[n].warning_count = 0]_vars

\* a component marked healthy again that kept the counts of its failures
\* and warnings
C12_Witness ==
    \E n \in Recorded :
        /\ StatusOf(n) = HEALTHY
        /\ objs[h].components[n].error_count = MaxCount
        /\ objs[h].components[n].warning_count >= 1

\* the calls op(n, ..., md) with the other arguments from D
MarkCalls(op, n, md, D) ==
    IF op = "mark_healthy" THEN {Call(op, n, "None", FALSE, md)}
    ELSE IF op = "mark_degraded" THEN {Call(op, n, msg, fb, md) : msg \in D.msgs, fb \in D.fbs}
    ELSE {Call(op, n, msg, FALSE, md) : msg \in D.msgs}

\* what the call c makes of the held instance
After(c) == Run(StOf(objs[h], heap), c)

\* C15 (SpecMeta): from every state of the held instance, mark_failed(x)
\* leaves x FAILED, with error_count one greater than before (1 if x was
\* absent), warning_count as before (0 if absent) and fallback_active as
\* before (FALSE if absent).
C15_MarkFailedFrame ==
    Usable =>
    \A n \in MetaDom.names : \A md \in MetaInputs(h, MetaDom) :
       \A c \in MarkCalls("mark_failed", n, md, MetaDom) :
          LET new == After(c).components[n]
              was == n \in Recorded
              old == objs[h].components[n]
          IN  /\ new.status = FAILED
              /\ new.error_count = (IF was THEN old.error_count + 1 ELSE 1)
              /\ new.warning_count = (IF was THEN old.warning_count ELSE 0)
              /\ new.fallback_active = (IF was THEN old.fallback_active ELSE FALSE)

\* a component failed after it was degraded with its fallback active
C15_Witness ==
    \E n \in Recorded :
        /\ StatusOf(n) = FAILED
        /\ objs[h].components[n].fallback_active
        /\ objs[h].components[n].error_count = 1
        /\ objs[h].components[n].warning_count = 1

----------------------------------------------------------------------------
(* Parallel marks (SpecBarrier) *)

\* what the call c alone asks the record of c.name to be, as get_all_health
\* reports a record
ExpectedEntry(c) ==
    [name |-> c.name,
     status |-> IF c.op = "mark_healthy" THEN "healthy"
                ELSE IF c.op = "mark_degraded" THEN "degraded" ELSE "failed",
     error_count |-> IF c.op = "mark_failed" THEN 1 ELSE 0,
     warning_count |-> IF c.op = "mark_degraded" THEN 1 ELSE 0,
     last_error |-> IF c.op = "mark_healthy" THEN "None" ELSE c.error_msg,
     last_error_time |-> IF c.op = "mark_healthy" THEN "None" ELSE "set",
     fallback_active |-> c.op = "mark_degraded" /\ c.fallback_active,
     metadata |-> c.metadata.val]

EntryOf(e) == [e EXCEPT !.metadata = e.metadata.val]

\* C5: when N threads each call one mark_* on a name of their own that the
\* registry has not seen, get_all_health() after all of them returned has,
\* besides system_resources, exactly N records, one per name, each with the
\* status, counters, error message, fallback flag and metadata of the one
\* call made on that name.
C5_ParallelMarksAllRecorded ==
    ret.kind = "all"
    => /\ DOMAIN ret.value \ {"system_resources"}
             = {threads[t].call.name : t \in DOMAIN threads}
       /\ Cardinality(DOMAIN ret.value \ {"system_resources"}) = Cardinality(DOMAIN threads)
       /\ \A t \in DOMAIN threads :
             EntryOf(ret.value[threads[t].call.name]) = ExpectedEntry(threads[t].call)

\* the barrier read after a mark_degraded with metadata and a mark_failed
\* ran in different threads
C5_Witness ==
    /\ ret.kind = "all"
    /\ \E t, u \in DOMAIN threads :
          /\ threads[t].call.op = "mark_degraded"
          /\ threads[t].call.metadata.kind = "fresh"
          /\ threads[u].call.op = "mark_failed"
          /\ ret.value[threads[t].call.name].warning_count = 1
          /\ ret.value[threads[u].call.name].error_count = 1

----------------------------------------------------------------------------
(* The singleton under concurrent callers (SpecSingleton) *)

\* C6: the accessor calls that began and returned while no reset() was
\* running, since the last reset() returned, were all handed the same
\* instance; and no accessor call hands out an instance on which a reset()
\* had returned before that call began.
C6_OneVisibleInstance ==
    /\ Cardinality(window) <= 1
    /\ \A t \in DOMAIN threads : threads[t].result \notin threads[t].start_retired

----------------------------------------------------------------------------
(* Reset and the singleton (Spec) *)

\* C7: get_system_status() right after reset() reports "healthy" and a
\* total of 0, and the next accessor call after a reset hands out an object
\* built by that call, other than the reset one, with no components.
C7_ResetThenFresh ==
    /\ (ret.kind = "status" /\ ret.after_reset)
       => /\ ret.value.overall_status = "healthy"
          /\ ret.value.component_counts.total = 0
    /\ (ret.kind = "instance" /\ ret.after_reset)
       => /\ ret.created
          /\ ~ret.same_as_held
          /\ objs[h].components = EmptyComps
          /\ cls_instance = h

\* an accessor call that follows a reset of the held instance
C7_Witness == ret.kind = "instance" /\ ret.after_reset /\ ret.created

----------------------------------------------------------------------------
(* Returned values (SpecMeta) *)

\* C8: a write into a value a query returned leaves every instance and
\* every metadata dict of the registry as it was.
C8_ReturnedValueIsCopy == [][MutateReturned => UNCHANGED <<objs, heap>>]_vars

\* C16: from every state of the held instance, mark_healthy, mark_degraded
\* or mark_failed on a recorded component with metadata M leaves the
\* component's metadata with the keys it had and those of M, each key of M
\* mapped to M's value and every other key to the value it had.
C16_MetadataMerged ==
    \A n \in Recorded : \A op \in MarkOps, md \in MetaInputs(h, MetaDom) :
       \A c \in MarkCalls(op, n, md, MetaDom) :
          LET old == heap[objs[h].components[n].metadata]
              new == After(c).heap[After(c).components[n].metadata]
              M == MetaContent(md, heap)
          IN  /\ DOMAIN new = DOMAIN old \cup DOMAIN M
              /\ \A k \in DOMAIN M : new[k] = M[k]
              /\ \A k \in DOMAIN old \ DOMAIN M : new[k] = old[k]

\* metadata {a: 2, b: 2} merged with {a: 1}: a overwritten, b kept
C16_Witness ==
    \E n \in Recorded :
        heap[objs[h].components[n].metadata] = [k \in {"a", "b"} |-> IF k = "a" THEN "1" ELSE "2"]

\* the mutations of component a with metadata argument md
MutationCalls(a, md, D) ==
    {Call("register_component", a, "None", FALSE, md)}
    \cup UNION {MarkCalls(op, a, md, D) : op \in MarkOps}

\* C20: from every state of the held instance, a register_component or
\* mark_* call on a, whatever its metadata argument (a dict object passed
\* before included), leaves the record of every other component b, and the
\* content of b's metadata, as they were.
C20_OtherComponentsUntouched ==
    \A b \in Recorded : \A a \in MetaDom.names \ {b}, md \in MetaInputs(h, MetaDom) :
       \A c \in MutationCalls(a, md, MetaDom) :
          /\ After(c).components[b] = objs[h].components[b]
          /\ After(c).heap[After(c).components[b].metadata] = heap[objs[h].components[b].metadata]

----------------------------------------------------------------------------
(* Lookups (Spec) *)

\* C17: get_component_health(name) returns a record of the registry; from
\* every state of the held instance it gives a name not recorded a record
\* with status UNKNOWN and zero counters and changes nothing for a recorded
\* name, in both cases leaving the other records alone; and every
\* get_all_health() has an entry for each name looked up or mutated since
\* the instance was created or last reset.
C17_LookupNeverAbsent ==
    /\ ret.kind = "component" => ret.name \in Recorded
    /\ ret.kind = "all" => seen \subseteq DOMAIN ret.value
    /\ Usable =>
        \A n \in Names :
           LET st == After(Call("get_component_health", n, "None", FALSE, MetaNone))
           IN  IF n \in Recorded
               THEN st = StOf(objs[h], heap)
               ELSE /\ DOMAIN st.components = Recorded \cup {n}
                    /\ st.components[n].status = UNKNOWN
                    /\ st.components[n].error_count = 0
                    /\ st.components[n].warning_count = 0
                    /\ \A m \in Recorded : st.components[m] = objs[h].components[m]
                    /\ st.system_status = objs[h].system_status

\* a get_all_health() result with the entry of a name that a lookup
\* auto-registered
C17_Witness ==
    /\ ret.kind = "all"
    /\ \E n \in seen : ret.value[n].status = "unknown" /\ ret.value[n].error_count = 0

----------------------------------------------------------------------------
(* Readers and the collaborator beside writers (SpecThreads) *)

\* C9: the fields (status, error_count, warning_count, last_error,
\* fallback_active) a thread has read from the record a query handed it are
\* those the record had before, or those it has after, a mark_* call that
\* another thread runs on that component: never a mixture.
C9_ReaderSeesNoPartialUpdate ==
    \A t \in DOMAIN threads :
        threads[t].pc = "done" /\ threads[t].call.op = "get_component_health"
        => threads[t].obs.seen \in {threads[t].obs.before, threads[t].obs.after}

\* C10: while a thread inside get_all_health() or get_system_status() waits
\* for the collaborator,
\* a thread that calls register_component, mark_* or get_component_health
\* on the same instance can acquire the lock.
C10_CollaboratorDoesNotStall ==
    \A t, u \in DOMAIN threads :
        (/\ threads[t].pc = "collab"
         /\ threads[u].pc = "acquire"
         /\ threads[u].call.op \in LockedOps
         /\ threads[u].self = threads[t].self)
        => CanAcquire(u, LockOf(threads[u].self))

----------------------------------------------------------------------------
(* The resource-metrics collaborator (SpecCollab) *)

\* C13: a get_all_health() during which the collaborator raises does not
\* raise: it returns every recorded component's entry plus a
\* system_resources entry with status "unknown" and the failure reason in
\* last_error, and leaves the instances, their aggregate and the metadata
\* dicts as they were.
C13_CollaboratorFailureContained ==
    [][(\/ ret'.kind = "all" /\ ret'.collab.raises
        \/ ret'.kind = "raised" /\ ret'.op = "get_all_health")
       => /\ ret'.kind = "all"
          /\ DOMAIN ret'.value = DOMAIN objs[h].components \cup {"system_resources"}
          /\ \A n \in DOMAIN objs[h].components :
                ret'.value[n] = to_dict(objs[h].components[n], heap)
          /\ ret'.value["system_resources"].status = "unknown"
          /\ ret'.value["system_resources"].last_error = "boom"
          /\ UNCHANGED <<objs, heap, h, cls_instance, health_monitor>>]_vars

\* C14: the system_resources entry of get_all_health() has status "healthy"
\* exactly for the verdict "ok", "degraded" exactly for "warning", "failed"
\* exactly for "critical", and "unknown" for a verdict that is missing or
\* is none of the three.
C14_VerdictMapping ==
    (ret.kind = "all" /\ ~ret.collab.raises)
    => ret.value["system_resources"].status =
          (CASE ret.collab.overall = "ok" -> "healthy"
             [] ret.collab.overall = "warning" -> "degraded"
             [] ret.collab.overall = "critical" -> "failed"
             [] OTHER -> "unknown")

\* C18: in a result of get_system_status() whose system_resources entry is
\* "degraded" or "failed", overall_status is not "healthy".
C18_CollaboratorFeedsOverall ==
    (/\ ret.kind = "status"
     /\ ret.value.components["system_resources"].status \in {"degraded", "failed"})
    => ret.value.overall_status # "healthy"

----------------------------------------------------------------------------
(* Initialization of an instance (SpecRegistry) *)

\* __init__ assigns _components (line 83) before _component_lock (line 84),
\* and neither attribute is ever deleted: an instance that has a lock has
\* a component map too.
HasMapAndLock(i) == objs[i].lock_gen > 0

\* the instances handed to a caller by the accessor call it made last
Received == {threads[t].result : t \in DOMAIN threads} \ {NoResult, 0}

\* some caller has acquired the lock of instance i or recorded a component in it
Touched(i) == \E u \in DOMAIN threads : i \in threads[u].touched

\* this step is line 83 or line 84 of an __init__ run on instance i
Replaced(i) ==
    \E t \in DOMAIN threads :
        /\ threads[t].tmp = i
        /\ \/ At(t, "i83") /\ threads'[t].pc = "i84"
           \/ At(t, "i84") /\ threads'[t].pc = "i85"

\* no caller is handed an instance that has no component map and lock yet
C21_ReceivedInitialized == \A i \in Received : HasMapAndLock(i)

\* no __init__ run replaces the map or lock of an instance already in use
C21_NotReplacedOnceUsed == \A i \in DOMAIN objs : Touched(i) => ~Replaced(i)

\* C21: under any interleaving of constructor, accessor and reset() calls, a
\* caller is never handed an instance whose component map and lock are not
\* set yet, and __init__ never replaces the component map or the lock of an
\* instance after a caller has recorded a component in it or acquired its
\* lock.
C21_InitializedOnceBeforeUse ==
    [][C21_ReceivedInitialized' /\ C21_NotReplacedOnceUsed]_vars

----------------------------------------------------------------------------
(* Audit records (SpecAudit) *)

SingleLine(t) == \A i \in 1..Len(t) : t[i] \notin {LF, CR}

\* C22: every text handed to the sink for one event holds no line break,
\* whatever the user, ip, resource, action and details of the call are, so
\* that one event is one record of the log.
C22_OneLinePerEvent == \A i \in 1..Len(sink) : SingleLine(sink[i])

====
